---- MODULE Spec2Model ----
(***************************************************************************)
(* A model of search_pypi_top.py: the scan of a directory of archives      *)
(* (tar.gz, tar.bz2, zip) for the lines that match a pattern.              *)
(*                                                                         *)
(* The generators search_dir -> grep -> decompress -> decompress_tar/zip   *)
(* are modelled as one control state `pc`; each action is one step of the  *)
(* generator chain between two observable points.  File names are strings, *)
(* file contents are sequences of byte values 0..255.                      *)
(***************************************************************************)
EXTENDS Integers, Sequences, FiniteSets, TLC

(***************************************************************************)
(* Bounds of the model.                                                    *)
(***************************************************************************)
\* the longest directory listing that is explored
MaxArchives == 3
\* the longest byte buffer given to is_binary_string on its own
MaxHeaderLen == 3

(***************************************************************************)
(* Characters and bytes.                                                   *)
(***************************************************************************)
\* the printable ASCII characters of code 32 (space) to 95 (_), in order
AsciiLow == " !\"#$%&'()*+,-./0123456789:;<=>?@ABCDEFGHIJKLMNOPQRSTUVWXYZ[\\]^_"

\* the printable ASCII characters of code 97 (a) to 126 (~), in order
AsciiHigh == "abcdefghijklmnopqrstuvwxyz{|}~"

Min(a, b) == IF a < b THEN a ELSE b

\* the i-th character of a string, as a string of length one
CharAt(s, i) == SubSeq(s, i, i)

\* the code of a printable ASCII character
Ord(c) ==
    IF \E i \in 1..Len(AsciiLow) : CharAt(AsciiLow, i) = c
    THEN 31 + (CHOOSE i \in 1..Len(AsciiLow) : CharAt(AsciiLow, i) = c)
    ELSE 96 + (CHOOSE i \in 1..Len(AsciiHigh) : CharAt(AsciiHigh, i) = c)

\* a bytes literal: b"..." of printable ASCII characters
Bytes(s) == [i \in 1..Len(s) |-> Ord(CharAt(s, i))]

\* the byte n repeated k times
Repeat(n, k) == [i \in 1..k |-> n]

Byte == 0..255

\* the characters of an ASCII str, as their codes
Chars(s) == Bytes(s)

\* str.lower() of ASCII characters: A..Z become a..z
Lower(t) == [i \in 1..Len(t) |-> IF t[i] \in 65..90 THEN t[i] + 32 ELSE t[i]]

\* str.endswith(suffix) and bytes.startswith(prefix)
EndsWith(s, suffix) ==
    /\ Len(s) >= Len(suffix)
    /\ SubSeq(s, Len(s) - Len(suffix) + 1, Len(s)) = suffix

StartsWith(s, prefix) ==
    /\ Len(s) >= Len(prefix)
    /\ SubSeq(s, 1, Len(prefix)) = prefix

\* str.endswith(tuple of suffixes): one of the ends of s is a suffix
EndsWithAny(s, suffixes) ==
    \E i \in 1..(Len(s) + 1) : SubSeq(s, i, Len(s)) \in suffixes

(***************************************************************************)
(* Module constants of search_pypi_top.py.                                 *)
(***************************************************************************)
IGNORED_FILE_EXTENSIONS_LIST ==
    { "EXE", "SO", "PYD",
      "PYC", "WHL",
      "BZ2", "CAB", "GZ", "ZIP", "RAR", "TAR", "TGZ", "XZ",
      "AI", "BMP", "ICO", "JPG", "PNG", "PSD", "TGA", "TIF", "WMF", "XCF",
      "AAC", "AIF", "ANI", "MP3", "WAV", "WMA",
      "AVI", "MKV", "MP4",
      "DEB", "RPM",
      "BIN", "PDF", "MO", "DB", "ISO", "JAR", "TTF", "XLS",
      "DS_Store" }

\* tuple("." + ext.lower() for ext in IGNORED_FILE_EXTENSIONS)
IGNORED_FILE_EXTENSIONS ==
    { Chars(".") \o Lower(Chars(ext)) : ext \in IGNORED_FILE_EXTENSIONS_LIST }

BINARY_TEST_LEN == 256

\* bytearray({7,8,9,10,12,13,27} | set(range(0x20, 0x100)) - {0x7f}):
\* set difference binds tighter than union
TEXTCHARS_7F == {7, 8, 9, 10, 12, 13, 27} \cup (32..255)

TEXTCHARS == {7, 8, 9, 10, 12, 13, 27} \cup ((32..255) \ {127})

\* header.translate(None, TEXTCHARS): the bytes of header not in TEXTCHARS
Translate(header, delete) ==
    LET keep == { i \in 1..Len(header) : header[i] \notin delete }
        Nth(k) == CHOOSE i \in keep :
                      Cardinality({ j \in keep : j <= i }) = k
    IN  [k \in 1..Cardinality(keep) |-> header[Nth(k)]]

is_binary_string(header) == Len(Translate(header, TEXTCHARS)) > 0

(***************************************************************************)
(* Lines of a stream, the pattern and the Cython banner.                   *)
(***************************************************************************)
\* the offset after the line that starts at offset pos: `for line in fp`
\* splits after each b'\n'; a last line without b'\n' ends with the content
LineEnd(content, pos) ==
    LET nl == { i \in (pos + 1)..Len(content) : content[i] = 10 }
    IN  IF nl = {} THEN Len(content)
        ELSE CHOOSE i \in nl : \A j \in nl : i <= j

\* the line that starts at offset pos, its b'\n' included
LineAt(content, pos) == SubSeq(content, pos + 1, LineEnd(content, pos))

\* regex.search(line) for a pattern without metacharacters: the pattern
\* occurs somewhere in the line
Search(regex, line) ==
    \E i \in 1..(Len(line) - Len(regex) + 1) :
        SubSeq(line, i, i + Len(regex) - 1) = regex

IsDigit(b) == b \in 48..57

\* [0-9]+ : the positions reached from a position of S over one or more digits
DigitsFrom(line, S) ==
    { j \in 2..(Len(line) + 1) :
        \E i \in S : i < j /\ \A k \in i..(j - 1) : IsDigit(line[k]) }

\* .[0-9]+ : any byte but b'\n', then one or more digits
GroupFrom(line, S) ==
    DigitsFrom(line, { i + 1 : i \in { k \in S : k <= Len(line) /\ line[k] # 10 } })

\* (.[0-9]+)+ : one to n repetitions of the group
RECURSIVE GroupPlus(_, _, _)
GroupPlus(line, S, n) ==
    IF n = 0 \/ S = {} THEN {}
    ELSE LET G == GroupFrom(line, S) IN G \cup GroupPlus(line, G, n - 1)

CythonPrefix == Bytes("/* Generated by Cython ")

\* CYTHON_REGEX.match(line):  ^/\* Generated by Cython [0-9]+(.[0-9]+)+ 
CYTHON_REGEX(line) ==
    /\ StartsWith(line, CythonPrefix)
    /\ \E j \in GroupPlus(line, DigitsFrom(line, {Len(CythonPrefix) + 1}), Len(line)) :
           j <= Len(line) /\ line[j] = 32

(***************************************************************************)
(* line.decode('utf8', 'replace').strip()                                  *)
(***************************************************************************)
\* the number of continuation bytes the lead byte b asks for (0: no lead)
Utf8Need(b) ==
    IF b \in 194..223 THEN 1
    ELSE IF b \in 224..239 THEN 2
    ELSE IF b \in 240..244 THEN 3
    ELSE 0

\* the values the j-th byte after the lead byte b may have
Utf8Range(b, j) ==
    IF j > 1 THEN 128..191
    ELSE IF b = 224 THEN 160..191
    ELSE IF b = 237 THEN 128..159
    ELSE IF b = 240 THEN 144..191
    ELSE IF b = 244 THEN 128..143
    ELSE 128..191

\* how many of the bytes after the lead byte at i continue it
Utf8Valid(s, i) ==
    LET ok(k) == \A j \in 1..k : i + j <= Len(s) /\ s[i + j] \in Utf8Range(s[i], j)
        ks == { k \in 0..Utf8Need(s[i]) : ok(k) }
    IN  CHOOSE k \in ks : \A m \in ks : m <= k

Utf8Point(s, i, need) ==
    IF need = 1 THEN (s[i] - 192) * 64 + (s[i + 1] - 128)
    ELSE IF need = 2
         THEN (s[i] - 224) * 4096 + (s[i + 1] - 128) * 64 + (s[i + 2] - 128)
    ELSE (s[i] - 240) * 262144 + (s[i + 1] - 128) * 4096
         + (s[i + 2] - 128) * 64 + (s[i + 3] - 128)

\* the byte at j continues the part that starts at the last byte before it
\* that is not a continuation byte
Utf8Absorbed(s, j) ==
    LET leads == { i \in 1..(j - 1) : s[i] \notin 128..191 }
    IN  /\ leads # {}
        /\ LET i == CHOOSE l \in leads : \A m \in leads : m <= l
           IN  j - i <= Utf8Valid(s, i)

\* the indices at which a character or an ill-formed part starts
Utf8Starts(s) ==
    { j \in 1..Len(s) : s[j] \notin 128..191 \/ ~Utf8Absorbed(s, j) }

\* the code point of the part that starts at i, U+FFFD for an ill-formed one
Utf8Char(s, i) ==
    IF s[i] < 128 THEN s[i]
    ELSE IF Utf8Need(s[i]) > 0 /\ Utf8Valid(s, i) = Utf8Need(s[i])
         THEN Utf8Point(s, i, Utf8Need(s[i]))
    ELSE 65533

\* bytes.decode('utf8', 'replace'): the code points, U+FFFD for each maximal
\* ill-formed part
Decode(s) ==
    LET starts == Utf8Starts(s)
        Nth(k) == CHOOSE i \in starts :
                      Cardinality({ j \in starts : j <= i }) = k
    IN  [k \in 1..Cardinality(starts) |-> Utf8Char(s, Nth(k))]

\* the code points str.strip() removes
Whitespace ==
    (9..13) \cup (28..32) \cup {133, 160, 5760} \cup (8192..8202)
    \cup {8232, 8233, 8239, 8287, 12288}

\* str.strip()
Strip(t) ==
    LET ink == { i \in 1..Len(t) : t[i] \notin Whitespace }
    IN  IF ink = {} THEN << >>
        ELSE SubSeq(t, CHOOSE i \in ink : \A j \in ink : i <= j,
                       CHOOSE i \in ink : \A j \in ink : j <= i)

(***************************************************************************)
(* The directory on disk: the archives and their members.                  *)
(*   isfile     FALSE for a directory, a link or a device                  *)
(*   corrupt    reading the byte at offset failAt, or beyond, raises       *)
(*   badheader  the member's header cannot be read (tar.next() and         *)
(*              zf.open() raise)                                           *)
(*   unreadable the container cannot be opened                             *)
(***************************************************************************)
File(name, content) ==
    [name |-> name, isfile |-> TRUE, content |-> content,
     corrupt |-> FALSE, failAt |-> 0, badheader |-> FALSE]

a_txt == File("a.txt", Bytes("hello") \o <<10>> \o Bytes("TARGET") \o <<10>>
                       \o Bytes("world") \o <<10>>)

\* an ELF header, then text
lib_so == File("lib.so", <<127, 69, 76, 70, 0, 1>> \o Bytes("TARGET") \o <<10>>)

lib_py == File("lib.py", Bytes("x = TARGET") \o <<10, 9>> \o Bytes("y = 1") \o <<10>>
                         \o Bytes("  TARGET = world  ") \o <<13, 10>>)

gen_c == File("src/gen.c", Bytes("/* Generated by Cython 0.29.13 */") \o <<10>>
                           \o Bytes("TARGET") \o <<10>>)

\* the banner is not on the first line
late_c == File("late.c", Bytes("TARGET") \o <<10>>
                         \o Bytes("/* Generated by Cython 0.29.13 */") \o <<10>>)

\* no known extension; ESC is a text byte, DEL is not
blob == File("data/blob", <<27, 127>> \o Bytes("TARGET") \o <<10>>)

\* a known extension in upper case, text content
notes_pdf == File("NOTES.PDF", Bytes("TARGET world") \o <<10>>)

\* a NUL byte right after the first BINARY_TEST_LEN bytes, and a last line
\* without b'\n'
big_txt == File("big.txt", Bytes("TARGET") \o <<10>> \o Repeat(97, 249) \o <<0, 10>>
                           \o Bytes("world TARGET"))

\* bytes that are not UTF-8
utf_txt == File("utf.txt", <<195, 169>> \o Bytes("TARGET") \o <<255, 10>>)

\* the stream fails inside the third line, after the first BINARY_TEST_LEN
\* bytes and after a first line that matches
bad_txt ==
    [File("bad.txt", Bytes("TARGET") \o <<10>> \o Repeat(97, 248) \o <<10>>
                     \o Bytes("world TARGET") \o <<10>> \o Bytes("hello") \o <<10>>)
     EXCEPT !.corrupt = TRUE, !.failAt = 260]

\* the stream fails inside the second line, within the first BINARY_TEST_LEN
\* bytes
trunc_txt ==
    [File("trunc.txt", Bytes("TARGET") \o <<10>> \o Bytes("hello") \o <<10>>)
     EXCEPT !.corrupt = TRUE, !.failAt = 9]

broken_c == [File("broken.c", << >>) EXCEPT !.badheader = TRUE]

pkg_dir == [File("pkg/", << >>) EXCEPT !.isfile = FALSE]

Archives ==
    { [filename |-> "pkg.zip", unreadable |-> FALSE,
       members |-> << pkg_dir, lib_so, gen_c, a_txt >>],
      [filename |-> "proj.tar.gz", unreadable |-> FALSE,
       members |-> << pkg_dir, lib_so, lib_py, blob >>],
      [filename |-> "README.txt", unreadable |-> FALSE, members |-> << >>],
      [filename |-> "broken.tar.bz2", unreadable |-> TRUE, members |-> << >>],
      [filename |-> "corrupt.tgz", unreadable |-> FALSE,
       members |-> << lib_py, bad_txt, a_txt >>],
      [filename |-> "big.zip", unreadable |-> FALSE,
       members |-> << big_txt, notes_pdf, late_c, utf_txt >>],
      [filename |-> "hdr.zip", unreadable |-> FALSE,
       members |-> << a_txt, broken_c, lib_py >>],
      [filename |-> "trunc.tar.bz2", unreadable |-> FALSE,
       members |-> << a_txt, trunc_txt, lib_py >>] }

ArchiveNames == { a.filename : a \in Archives }

\* os.listdir(pypi_dir): the names of the directory, each once, in some order
Listings ==
    { l \in UNION { [1..n -> ArchiveNames] : n \in 0..MaxArchives } :
        \A i, j \in 1..Len(l) : i # j => l[i] # l[j] }

pypi_dir == "pypi"

\* the patterns given on the command line
Patterns == { Bytes("TARGET"), Bytes("world") }

\* os.path.join(pypi_dir, filename)
Join(dir, name) == dir \o "/" \o name

ArchiveOf(name) == CHOOSE a \in Archives : a.filename = name

(***************************************************************************)
(* The state.                                                              *)
(***************************************************************************)
VARIABLES
    listing,        \* os.listdir(pypi_dir)
    text,           \* args.text
    IGNORE_CYTHON,  \* the module flag, read at each first line
    regex,          \* re.compile(pattern)
    pc,             \* where the generator chain stands
    ai,             \* search_dir: index in listing of the archive being scanned
    ei,             \* decompress_*: index of the current member of the archive
    tars,           \* the archive handles that are open (indices in listing)
    fps,            \* the entry streams that are open (<<archive, member>>)
    pos,            \* the offset of the current entry stream
    data,           \* is_binary_file: the bytes read for the test
    binary,         \* the last result of is_binary_string / is_binary_file
    lineno,         \* grep: lineno
    matchs,         \* grep: matchs
    ignore,         \* grep: ignore
    mi,             \* grep: how many of matchs `yield from` has yielded
    output,         \* the matches search_dir has yielded to its consumer
    log,            \* the records given to logging
    raised          \* the exception that left search_dir, "" for none

vars == << listing, text, IGNORE_CYTHON, regex, pc, ai, ei, tars, fps, pos, data,
           binary, lineno, matchs, ignore, mi, output, log, raised >>

\* the archive and the member the scan is at
filename == Join(pypi_dir, listing[ai])
Archive == ArchiveOf(listing[ai])
Member == Archive.members[ei]

LogRecord(level, msg, archive, name) ==
    [level |-> level, msg |-> msg, archive |-> archive, name |-> name]

Init ==
    /\ listing \in Listings
    /\ text \in BOOLEAN
    /\ IGNORE_CYTHON \in BOOLEAN
    /\ regex \in Patterns
    /\ pc = "listdir"
    /\ ai = 0
    /\ ei = 0
    /\ tars = {}
    /\ fps = {}
    /\ pos = 0
    /\ data = << >>
    /\ binary = FALSE
    /\ lineno = 1
    /\ matchs = << >>
    /\ ignore = FALSE
    /\ mi = 0
    /\ output = << >>
    /\ log = << >>
    /\ raised = ""

(***************************************************************************)
(* Helpers of the operations.                                              *)
(***************************************************************************)
\* the comparison without lower(): the case of the name counts
ignore_filename_cased(name) ==
    IF text THEN FALSE
    ELSE EndsWithAny(Chars(name), IGNORED_FILE_EXTENSIONS)

ignore_filename(name) ==
    IF text THEN FALSE
    ELSE EndsWithAny(Lower(Chars(name)), IGNORED_FILE_EXTENSIONS)

\* the mode decompress picks from the file name, "" for none
Format(name) ==
    IF EndsWithAny(name, {".tar.gz", ".tgz"}) THEN "r:gz"
    ELSE IF EndsWith(name, ".tar.bz2") THEN "r:bz2"
    ELSE IF EndsWith(name, ".zip") THEN "zip"
    ELSE ""

\* fp.read(n) at offset p: the bytes and the new offset
Read(content, p, n) ==
    [data |-> SubSeq(content, p + 1, Min(p + n, Len(content))),
     pos |-> Min(p + n, Len(content))]

\* reading the bytes of member m up to offset q (excluded) raises
ReadFails(m, q) == m.corrupt /\ m.failAt < q

\* a stream whose seek does not move it
SeekNowhere(p, offset) == p

\* fp.seek(offset): the new offset
Seek(p, offset) == offset

\* is_binary_file(args, fp) for a stream at offset p that can be read
is_binary_file(content, p) ==
    IF text THEN [result |-> FALSE, pos |-> p, data |-> data]
    ELSE LET r == Read(content, p, BINARY_TEST_LEN)
         IN  [result |-> is_binary_string(r.data), pos |-> Seek(r.pos, 0),
              data |-> r.data]

\* a stream that is never closed
WithFpLeak(streams) == streams

\* leaving `with fp:` closes the stream of the current member
WithFpExit(streams) == streams \ { <<ai, ei>> }

\* leaving `with tarfile.open(...) as tar:` or `with zipfile.ZipFile(...) as zf:`
\* closes the handle of the current archive
WithArchiveExit(handles) == handles \ { ai }

\* an exception leaves search_dir: nothing catches it in grep or search_dir,
\* and the matches grep has accumulated are not yielded
Raise(exc) ==
    /\ pc' = "raised"
    /\ raised' = exc
    /\ output' = output

\* the accumulated matches as search_dir yields them
Yielded(ms) ==
    [k \in 1..Len(ms) |->
        [archive |-> filename, name |-> ms[k].name,
         line |-> Strip(Decode(ms[k].line)),
         ai |-> ai, ei |-> ei, lineno |-> ms[k].lineno]]

\* grep yielding what it has accumulated when the stream fails
GrepRaiseFlushing(exc) ==
    /\ pc' = "raised"
    /\ raised' = exc
    /\ output' = output \o Yielded(matchs)

\* an exception of `for line in fp` leaves grep before `yield from matchs`
GrepRaise(exc) == Raise(exc)

\* grep goes back to `for filename, fp in decompress(...)`: the generator
\* resumes after its yield and leaves `with fp:`
NextEntry ==
    /\ fps' = WithFpExit(fps)
    /\ pc' = "member"

(***************************************************************************)
(* The operations.                                                         *)
(***************************************************************************)
\* search_dir: the head of `for filename in os.listdir(pypi_dir)`
search_dir ==
    /\ pc = "listdir"
    /\ IF ai < Len(listing)
       THEN /\ ai' = ai + 1
            /\ log' = Append(log, LogRecord("WARNING", "grep",
                                            Join(pypi_dir, listing[ai + 1]), ""))
            /\ pc' = "decompress"
       ELSE /\ pc' = "done"
            /\ UNCHANGED << ai, log >>
    /\ ei' = 0
    /\ UNCHANGED << listing, text, IGNORE_CYTHON, regex, tars, fps, pos, data,
                    binary, lineno, matchs, ignore, mi, output, raised >>

\* decompress: the choice of the reader from the file name, and the opening
\* of the container by decompress_tar or decompress_zip
decompress ==
    /\ pc = "decompress"
    /\ IF Format(filename) = ""
       THEN /\ Raise("Exception: unsupported filename")
            /\ UNCHANGED tars
       ELSE IF Archive.unreadable
       THEN /\ Raise(IF Format(filename) = "zip" THEN "BadZipFile" ELSE "ReadError")
            /\ UNCHANGED tars
       ELSE /\ tars' = tars \cup { ai }
            /\ pc' = "member"
            /\ UNCHANGED << raised, output >>
    /\ UNCHANGED << listing, text, IGNORE_CYTHON, regex, ai, ei, fps, pos, data,
                    binary, lineno, matchs, ignore, mi, log >>

\* decompress_tar: one turn of `while True`
decompress_tar ==
    /\ pc = "member"
    /\ Format(filename) \in { "r:gz", "r:bz2" }
    /\ IF ei = Len(Archive.members)
       THEN \* tar.next() is None: break, and the with block closes the archive;
            \* grep ends and search_dir takes the next file name
            /\ tars' = WithArchiveExit(tars)
            /\ pc' = "listdir"
            /\ UNCHANGED << ei, fps, pos, log, raised, output >>
       ELSE LET m == Archive.members[ei + 1] IN
            /\ ei' = ei + 1
            /\ IF m.badheader
               THEN \* tar.next() raises inside the with block
                    /\ Raise("ReadError")
                    /\ tars' = WithArchiveExit(tars)
                    /\ UNCHANGED << fps, pos, log >>
               ELSE IF ignore_filename(m.name)
               THEN /\ log' = Append(log, LogRecord("INFO", "ignore filename",
                                                    filename, m.name))
                    /\ pc' = "member"
                    /\ UNCHANGED << tars, fps, pos, raised, output >>
               ELSE IF ~m.isfile
               THEN \* tar.extractfile(member) is None
                    /\ pc' = "member"
                    /\ UNCHANGED << tars, fps, pos, log, raised, output >>
               ELSE \* with fp: yield (filename, fp)
                    /\ fps' = fps \cup { <<ai, ei + 1>> }
                    /\ pos' = 0
                    /\ pc' = "sniff"
                    /\ UNCHANGED << tars, log, raised, output >>
    /\ UNCHANGED << listing, text, IGNORE_CYTHON, regex, ai, data, binary, lineno,
                    matchs, ignore, mi >>

\* decompress_zip: one turn of `for member in zf.filelist`
decompress_zip ==
    /\ pc = "member"
    /\ Format(filename) = "zip"
    /\ IF ei = Len(Archive.members)
       THEN /\ tars' = WithArchiveExit(tars)
            /\ pc' = "listdir"
            /\ UNCHANGED << ei, fps, pos, log, raised, output >>
       ELSE LET m == Archive.members[ei + 1] IN
            /\ ei' = ei + 1
            /\ IF ignore_filename(m.name)
               THEN /\ log' = Append(log, LogRecord("INFO", "ignore filename",
                                                    filename, m.name))
                    /\ pc' = "member"
                    /\ UNCHANGED << tars, fps, pos, raised, output >>
               ELSE IF m.badheader
               THEN \* zf.open(member) raises inside the with block
                    /\ Raise("BadZipFile")
                    /\ tars' = WithArchiveExit(tars)
                    /\ UNCHANGED << fps, pos, log >>
               ELSE \* with zf.open(member) as fp: yield (filename, fp); a
                    \* directory entry opens as an empty stream
                    /\ fps' = fps \cup { <<ai, ei + 1>> }
                    /\ pos' = 0
                    /\ pc' = "sniff"
                    /\ UNCHANGED << tars, log, raised, output >>
    /\ UNCHANGED << listing, text, IGNORE_CYTHON, regex, ai, data, binary, lineno,
                    matchs, ignore, mi >>

\* grep: is_binary_file(args, fp) on the entry it was given, and the start of
\* the scan of its lines
grep_sniff ==
    /\ pc = "sniff"
    /\ IF ~text /\ ReadFails(Member, Min(pos + BINARY_TEST_LEN, Len(Member.content)))
       THEN \* fp.read(BINARY_TEST_LEN) raises
            /\ Raise("EntryReadError")
            /\ UNCHANGED << fps, pos, data, binary, log >>
       ELSE LET r == is_binary_file(Member.content, pos) IN
            /\ pos' = r.pos
            /\ data' = r.data
            /\ binary' = r.result
            /\ IF r.result
               THEN /\ log' = Append(log, LogRecord("INFO", "ignore binary file",
                                                    filename, Member.name))
                    /\ NextEntry
               ELSE /\ pc' = "lines"
                    /\ UNCHANGED << fps, log >>
            /\ UNCHANGED << raised, output >>
    /\ lineno' = 1
    /\ matchs' = << >>
    /\ ignore' = FALSE
    /\ UNCHANGED << listing, text, IGNORE_CYTHON, regex, ai, ei, tars, mi >>

\* the test made with a line count that starts at 0
IsCythonFileFromZero(n, line) == n = 0 /\ IGNORE_CYTHON /\ CYTHON_REGEX(line)

\* the first line of a file generated by Cython
IsCythonFile(n, line) == n = 1 /\ IGNORE_CYTHON /\ CYTHON_REGEX(line)

\* grep: one turn of `for line in fp`, and what follows the loop
grep_line ==
    /\ pc = "lines"
    /\ IF pos >= Len(Member.content)
       THEN \* the stream is exhausted
            /\ IF Len(matchs) > 0 /\ ~ignore
               THEN /\ pc' = "yield"
                    /\ UNCHANGED fps
               ELSE NextEntry
            /\ UNCHANGED << pos, lineno, matchs, ignore, log, raised, output >>
       ELSE LET line == LineAt(Member.content, pos) IN
            IF ReadFails(Member, LineEnd(Member.content, pos))
            THEN /\ GrepRaise("EntryReadError")
                 /\ UNCHANGED << fps, pos, lineno, matchs, ignore, log >>
            ELSE IF IsCythonFile(lineno, line)
            THEN \* ignore = True; break; nothing is yielded
                 /\ log' = Append(log, LogRecord("INFO", "ignore Cython file",
                                                 filename, Member.name))
                 /\ ignore' = TRUE
                 /\ pos' = LineEnd(Member.content, pos)
                 /\ NextEntry
                 /\ UNCHANGED << lineno, matchs, raised, output >>
            ELSE /\ matchs' = IF Search(regex, line)
                              THEN Append(matchs, [name |-> Member.name, line |-> line,
                                                   lineno |-> lineno])
                              ELSE matchs
                 /\ lineno' = lineno + 1
                 /\ pos' = LineEnd(Member.content, pos)
                 /\ UNCHANGED << pc, fps, ignore, log, raised, output >>
    /\ mi' = 0
    /\ UNCHANGED << listing, text, IGNORE_CYTHON, regex, ai, ei, tars, data, binary >>

\* the matches taken from the end
NextMatchReversed(ms, k) == ms[Len(ms) - k]

\* the match `yield from matchs` gives next
NextMatch(ms, k) == ms[k + 1]

\* grep yields one of matchs, search_dir decodes it and yields the match
grep_yield ==
    /\ pc = "yield"
    /\ mi < Len(matchs)
    /\ output' = output \o Yielded(<< NextMatch(matchs, mi) >>)
    /\ mi' = mi + 1
    /\ UNCHANGED << listing, text, IGNORE_CYTHON, regex, pc, ai, ei, tars, fps, pos,
                    data, binary, lineno, matchs, ignore, log, raised >>

\* the consumer asks for the next match after the last of matchs: grep goes
\* on with the next entry
grep_resume ==
    /\ pc = "yield"
    /\ mi = Len(matchs)
    /\ NextEntry
    /\ UNCHANGED << listing, text, IGNORE_CYTHON, regex, ai, ei, tars, pos, data,
                    binary, lineno, matchs, ignore, mi, output, log, raised >>

\* the consumer, holding a match, gives the iteration up
abandon ==
    /\ pc = "yield"
    /\ mi > 0
    /\ pc' = "abandoned"
    /\ UNCHANGED << listing, text, IGNORE_CYTHON, regex, ai, ei, tars, fps, pos,
                    data, binary, lineno, matchs, ignore, mi, output, log, raised >>

\* the generators suspended at a yield are closed when the iteration was
\* given up or an exception unwound their consumer: GeneratorExit is raised
\* at `yield (filename, fp)` and leaves `with fp:`, then the archive's with
finalize ==
    /\ pc \in { "raised", "abandoned" }
    /\ fps # {} \/ tars # {}
    /\ fps' = WithFpExit(fps)
    /\ tars' = WithArchiveExit(tars)
    /\ UNCHANGED << listing, text, IGNORE_CYTHON, regex, pc, ai, ei, pos, data,
                    binary, lineno, matchs, ignore, mi, output, log, raised >>

Next ==
    \/ search_dir
    \/ decompress
    \/ decompress_tar
    \/ decompress_zip
    \/ grep_sniff
    \/ grep_line
    \/ grep_yield
    \/ grep_resume
    \/ abandon
    \/ finalize

Spec == Init /\ [][Next]_vars

\* a generator that was dropped while suspended at a yield is closed in the
\* end
FairSpec == Spec /\ WF_vars(finalize)

(***************************************************************************)
(* is_binary_string on its own: the buffer is drawn at the start, the one  *)
(* action classifies it.                                                   *)
(***************************************************************************)
\* buffers of up to MaxHeaderLen bytes: any byte at one place, the same
\* filler byte at the others
Headers ==
    { [i \in 1..n |-> IF i = p THEN b ELSE f] :
        n \in 0..MaxHeaderLen, p \in 1..MaxHeaderLen, b \in Byte,
        f \in {0, 10, 65, 127, 255} }

InitBytes ==
    /\ listing = << >>
    /\ text = FALSE
    /\ IGNORE_CYTHON = TRUE
    /\ regex = << >>
    /\ pc = "bytes"
    /\ ai = 0
    /\ ei = 0
    /\ tars = {}
    /\ fps = {}
    /\ pos = 0
    /\ data \in Headers
    /\ binary = FALSE
    /\ lineno = 1
    /\ matchs = << >>
    /\ ignore = FALSE
    /\ mi = 0
    /\ output = << >>
    /\ log = << >>
    /\ raised = ""

classify ==
    /\ pc = "bytes"
    /\ binary' = is_binary_string(data)
    /\ pc' = "classified"
    /\ UNCHANGED << listing, text, IGNORE_CYTHON, regex, ai, ei, tars, fps, pos,
                    data, lineno, matchs, ignore, mi, output, log, raised >>

NextBytes == classify

SpecBytes == InitBytes /\ [][NextBytes]_vars

(***************************************************************************)
(* What the properties speak of.                                           *)
(***************************************************************************)
\* the archive at place a of the listing and its member e
ArchiveAt(a) == ArchiveOf(listing[a])
MemberAt(a, e) == ArchiveAt(a).members[e]

\* the scan has ended by itself: the listing is exhausted or an exception
\* has left search_dir
ScanEnded == pc \in { "done", "raised" }

\* the archive cannot be scanned at all: its suffix is not supported or the
\* container cannot be opened
ArchiveFails(a) ==
    Format(Join(pypi_dir, a.filename)) = "" \/ a.unreadable

\* the archive opens and the content of one of its entries cannot be read
EntryReadFails(a) ==
    ~ArchiveFails(a) /\ \E e \in 1..Len(a.members) : a.members[e].corrupt

\* the archive and all its entries can be read
Valid(a) ==
    /\ ~ArchiveFails(a)
    /\ \A e \in 1..Len(a.members) :
           ~a.members[e].corrupt /\ ~a.members[e].badheader

\* the bytes that are not text bytes
DisallowedBytes == (0..6) \cup {11} \cup (14..26) \cup (28..31) \cup {127}

IgnoredByExtension(m) ==
    ~text /\ EndsWithAny(Lower(Chars(m.name)), IGNORED_FILE_EXTENSIONS)

ClassifiedBinary(m) ==
    /\ ~text
    /\ \E i \in 1..Min(BINARY_TEST_LEN, Len(m.content)) :
           m.content[i] \in DisallowedBytes

Generated(m) ==
    IGNORE_CYTHON /\ Len(m.content) > 0 /\ CYTHON_REGEX(LineAt(m.content, 0))

Skipped(m) == IgnoredByExtension(m) \/ ClassifiedBinary(m) \/ Generated(m)

\* the offsets at which the lines of a content start
LineStarts(content) ==
    IF Len(content) = 0 THEN {}
    ELSE {0} \cup { i \in 1..(Len(content) - 1) : content[i] = 10 }

\* the number of the line that starts at offset p
LineNo(content, p) == 1 + Cardinality({ q \in LineStarts(content) : q < p })

\* how many yielded matches are line n of member e of archive a
Count(a, e, n) ==
    Cardinality({ k \in 1..Len(output) :
                    output[k].ai = a /\ output[k].ei = e /\ output[k].lineno = n })

\* every match of the archive at place a was yielded once, as
\* (archive, entry name, line), and nothing else of it was yielded
AllMatchesYielded(a) ==
    \A e \in 1..Len(ArchiveAt(a).members) :
        LET m == MemberAt(a, e) IN
        IF Skipped(m)
        THEN \A k \in 1..Len(output) : ~(output[k].ai = a /\ output[k].ei = e)
        ELSE /\ \A p \in LineStarts(m.content) :
                    Count(a, e, LineNo(m.content, p))
                        = IF Search(regex, LineAt(m.content, p)) THEN 1 ELSE 0
             /\ \A k \in 1..Len(output) :
                    output[k].ai = a /\ output[k].ei = e =>
                        \E p \in LineStarts(m.content) :
                            /\ output[k].lineno = LineNo(m.content, p)
                            /\ output[k].archive = Join(pypi_dir, listing[a])
                            /\ output[k].name = m.name
                            /\ output[k].line = Strip(Decode(LineAt(m.content, p)))

NoMatchYielded(a) == \A k \in 1..Len(output) : output[k].ai # a

\* how many errors were reported for the archive at place a: the records of
\* level ERROR given to logging, and the exception that left search_dir
ErrorsReported(a) ==
    Cardinality({ k \in 1..Len(log) :
                    log[k].level = "ERROR"
                    /\ log[k].archive = Join(pypi_dir, listing[a]) })
    + (IF raised # "" /\ ai = a THEN 1 ELSE 0)

(***************************************************************************)
(* The properties.                                                         *)
(***************************************************************************)
\* C1: when the scan has ended and one archive of the listing fails as a
\* whole (unsupported suffix, or the container cannot be opened) while the
\* others are valid, every match of the valid archives, before and after the
\* failing one, was yielded, the failing archive gave no match, and one
\* error was reported for it.
C1_FailureDoesNotAbort ==
    ScanEnded =>
        \A f \in 1..Len(listing) :
            ( /\ ArchiveFails(ArchiveAt(f))
              /\ \A a \in 1..Len(listing) : a # f => Valid(ArchiveAt(a)) )
            => /\ \A a \in 1..Len(listing) : a # f => AllMatchesYielded(a)
               /\ NoMatchYielded(f)
               /\ ErrorsReported(f) = 1

\* C2: when the scan has ended, for every readable archive of the listing
\* and every entry of it that is not skipped, each line the pattern matches
\* was yielded as exactly one match and each other line was not yielded.
C2_CompleteExactlyOnce ==
    ScanEnded =>
        \A a \in 1..Len(listing) : Valid(ArchiveAt(a)) => AllMatchesYielded(a)

\* C3: with IGNORE_CYTHON set, no yielded match is of an entry whose first
\* line is a Cython banner, and the step that meets the banner yields
\* nothing, raises nothing and hands over to the next entry of the archive.
C3_GeneratedSkipped ==
    /\ [](\A k \in 1..Len(output) : ~Generated(MemberAt(output[k].ai, output[k].ei)))
    /\ [][ ( /\ pc = "lines"
             /\ pos = 0
             /\ Generated(Member)
             /\ ~ReadFails(Member, LineEnd(Member.content, 0)) )
           => ( /\ pc' = "member"
                /\ ei' = ei
                /\ ai' = ai
                /\ output' = output
                /\ raised' = "" ) ]_vars

\* an entry generated by Cython, with a later line that matches, was
\* skipped and a later entry of the same archive gave a match
C3_Witness ==
    /\ IGNORE_CYTHON
    /\ regex = Bytes("TARGET")
    /\ \E k \in 1..Len(log), j \in 1..Len(output) :
           /\ log[k].msg = "ignore Cython file"
           /\ log[k].name = "src/gen.c"
           /\ log[k].archive = output[j].archive
           /\ output[j].name = "a.txt"

\* C4: no yielded match is of a skipped entry (ignored by its extension,
\* classified binary, or generated), and the step that skips an entry
\* raises nothing and hands over to the next entry.
C4_SkippedNeverMatch ==
    /\ [](\A k \in 1..Len(output) : ~Skipped(MemberAt(output[k].ai, output[k].ei)))
    /\ [][ ( \/ /\ pc = "member"
                /\ ei < Len(Archive.members)
                /\ IgnoredByExtension(Archive.members[ei + 1])
                /\ ~Archive.members[ei + 1].badheader
             \/ /\ pc = "sniff"
                /\ ClassifiedBinary(Member)
                /\ ~ReadFails(Member, Min(BINARY_TEST_LEN, Len(Member.content)))
             \/ /\ pc = "lines"
                /\ pos = 0
                /\ Generated(Member)
                /\ ~ReadFails(Member, LineEnd(Member.content, 0)) )
           => ( /\ pc' = "member"
                /\ ai' = ai
                /\ output' = output
                /\ raised' = "" ) ]_vars

\* force-text off: lib.so was ignored and lib.py, of the same archive, gave
\* a match
C4_Witness ==
    /\ ~text
    /\ \E k \in 1..Len(log), j \in 1..Len(output) :
           /\ log[k].msg = "ignore filename"
           /\ log[k].name = "lib.so"
           /\ log[k].archive = output[j].archive
           /\ output[j].name = "lib.py"

\* the place of a yielded match: archive, entry, line
Before(m1, m2) ==
    \/ m1.ai < m2.ai
    \/ m1.ai = m2.ai /\ m1.ei < m2.ei
    \/ m1.ai = m2.ai /\ m1.ei = m2.ei /\ m1.lineno < m2.lineno

\* C5: the yielded matches are in the order of the listing, then of the
\* members of the archive, then of the lines of the entry.
C5_Ordered ==
    \A i, j \in 1..Len(output) : i < j => Before(output[i], output[j])

\* matches of two archives, of two entries of one archive and of two lines
\* of one entry were yielded
C5_Witness ==
    \E i, j, k, l \in 1..Len(output) :
        /\ output[i].ai < output[j].ai
        /\ output[j].ai = output[k].ai /\ output[j].ei < output[k].ei
        /\ output[k].ai = output[l].ai /\ output[k].ei = output[l].ei
        /\ output[k].lineno < output[l].lineno

\* C6: no yielded match is of an entry whose stream fails during the scan
\* of its lines.
C6_NoPartialMatch ==
    \A k \in 1..Len(output) : ~MemberAt(output[k].ai, output[k].ei).corrupt

\* the stream failed in the scan of the lines after a line had matched
C6_Witness ==
    /\ pc = "raised"
    /\ raised = "EntryReadError"
    /\ Len(matchs) > 0
    /\ Member.corrupt
    /\ matchs[1].name = Member.name

\* C7: when the scan has ended and the content of an entry of one archive
\* could not be read while the other archives are valid, no later entry of
\* that archive gave a match and every archive listed after it was scanned:
\* all its matches were yielded.
C7_EntryFailureDoesNotAbort ==
    ScanEnded =>
        \A f \in 1..Len(listing) :
            ( /\ EntryReadFails(ArchiveAt(f))
              /\ \A a \in 1..Len(listing) : a # f => Valid(ArchiveAt(a)) )
            => /\ \A k \in 1..Len(output), e \in 1..Len(ArchiveAt(f).members) :
                      MemberAt(f, e).corrupt /\ output[k].ai = f
                          => output[k].ei < e
               /\ \A a \in (f + 1)..Len(listing) : AllMatchesYielded(a)

\* C8: a call of is_binary_file on a stream at offset 0 that returns leaves
\* the stream at offset 0, and the scan of the lines starts at offset 0.
C8_SniffRestoresPosition ==
    /\ [][ (pc = "sniff" /\ pos = 0 /\ pc' # "raised") => pos' = 0 ]_vars
    /\ [](pc = "lines" /\ lineno = 1 => pos = 0)

\* BINARY_TEST_LEN bytes of a longer entry were read and the scan of the
\* lines is about to start
C8_Witness ==
    /\ pc = "lines"
    /\ lineno = 1
    /\ ~text
    /\ Len(data) = BINARY_TEST_LEN
    /\ Len(Member.content) > BINARY_TEST_LEN
    /\ data = SubSeq(Member.content, 1, BINARY_TEST_LEN)

\* C9 as stated: a buffer of bytes of {7,8,9,10,12,13,27} and 0x20..0xFF
\* only is text, a buffer with a byte of DisallowedBytes is binary.
C9_AsStated ==
    pc = "classified" =>
        /\ (\A i \in 1..Len(data) :
                data[i] \in {7, 8, 9, 10, 12, 13, 27} \cup (32..255)) => ~binary
        /\ (\E i \in 1..Len(data) : data[i] \in DisallowedBytes) => binary

\* C9: a buffer of bytes of {7,8,9,10,12,13,27} and 0x20..0xFF without 0x7F
\* only is text, a buffer with a byte of DisallowedBytes is binary.
C9_Classification ==
    pc = "classified" =>
        /\ (\A i \in 1..Len(data) :
                data[i] \in {7, 8, 9, 10, 12, 13, 27} \cup (32..126) \cup (128..255))
           => ~binary
        /\ (\E i \in 1..Len(data) : data[i] \in DisallowedBytes) => binary

\* a buffer of text bytes and DEL was classified binary
C9_Witness ==
    /\ pc = "classified"
    /\ data = << 65, 127, 65 >>
    /\ binary

\* every handle that is open is of the archive and the entry the scan is at;
\* the entry being processed has its stream and its archive open; at the
\* head of search_dir's loop and at its end nothing is open
HandlesScoped ==
    /\ fps \subseteq { <<ai, ei>> }
    /\ tars \subseteq { ai }
    /\ \A h \in fps : h[1] \in tars
    /\ pc \in { "sniff", "lines", "yield" } => <<ai, ei>> \in fps
    /\ pc \in { "listdir", "decompress", "done" } => fps = {} /\ tars = {}
    /\ pc = "member" => fps = {}

\* C10: the handles are scoped as above (so an entry's stream is closed
\* before the next entry is opened, an archive is open as long as one of its
\* entries is processed, and all is closed once the entries are consumed),
\* and after an error was raised or the consumer gave the iteration up,
\* whatever is open is closed in the end.
C10_HandlesReleased ==
    /\ []HandlesScoped
    /\ (pc \in { "raised", "abandoned" }) ~> (fps = {} /\ tars = {})

\* an error was raised while an entry was processed, and its stream and its
\* archive were closed
C10_Witness ==
    /\ pc = "raised"
    /\ raised = "EntryReadError"
    /\ fps = {}
    /\ tars = {}

====
